---- MODULE Spec2Model ----
(***************************************************************************)
(* Model of lua-nsqpp's src/util.c: the NSQ frame decoder (decodeframe),   *)
(* the length-prefix encoder (htonl) and the byte-order readers            *)
(* (nsqpp_bswap16/32/64).                                                   *)
(*                                                                         *)
(* Representation.  TLC integers are 32 bits wide, so a C integer wider    *)
(* than 31 bits is modelled as a "word": the sequence of its bytes, most   *)
(* significant first (a uint32_t is a 4-byte word, a lua_Integer or a      *)
(* uint64_t an 8-byte word).  S32 and U16 give the numeric value of the    *)
(* words that fit.  Memory is a sequence of bytes, lowest address first.   *)
(* lua_Integer is taken to be 64 bits wide (Lua 5.3).                      *)
(***************************************************************************)
EXTENDS Integers, Sequences, FiniteSets, TLC

VARIABLES
    host,   \* byte order of the machine the module is built for
    rest,   \* bytes of the wire stream the caller has not read yet
    buf,    \* the caller's accumulation buffer
    pc,     \* the caller loop's position
    out,    \* the result of the last decodeframe call
    hist,   \* whether the last read appended exactly the `need` of the
            \* partial outcome before it, and whether that outcome had
            \* the size word to go by
    enc,    \* the last htonl call: argument, result, value read back
    rd      \* the last application of the byte-order readers

vars == <<host, rest, buf, pc, out, hist, enc, rd>>

----------------------------------------------------------------------------
(* Bounds of the model *)

\* frames are generated with bodies of 0..MaxBody bytes
MaxBody == 2

\* a generated frame is followed by one of the tail streams numbered 0..MaxTail
MaxTail == 2

----------------------------------------------------------------------------
(* Frame types: enum at util.c:47-53 *)

NSQPP_FRAME_INVAL == -2
NSQPP_FRAME_PARTIAL == -1
NSQPP_FRAME_RESPONSE == 0
NSQPP_FRAME_ERROR == 1
NSQPP_FRAME_MESSAGE == 2

----------------------------------------------------------------------------
(* C integers and memory *)

Hosts == {"little", "big"}

Rev(s) == [i \in 1..Len(s) |-> s[Len(s) + 1 - i]]

\* The integer (as a word) a union { intN_t num; uint8_t ptr[N]; } holds in
\* num when its bytes are ptr: on a little-endian host ptr[0] is the least
\* significant byte, on a big-endian host the most significant.
UnionNum(ptr, h) == IF h = "little" THEN Rev(ptr) ELSE ptr

\* The bytes ptr of the union when num holds the word w.
UnionPtr(w, h) == IF h = "little" THEN Rev(w) ELSE w

\* value of a 2-byte word as uint16_t
U16(w) == w[1] * 256 + w[2]

\* value of a 4-byte word converted to int32_t (two's complement)
S32(w) == (IF w[1] >= 128 THEN w[1] - 256 ELSE w[1]) * 16777216
          + w[2] * 65536 + w[3] * 256 + w[4]

----------------------------------------------------------------------------
(* Byte-order readers, util.c:74-111.  bytes is the memory at the pointer. *)

nsqpp_bswap16(bytes, h) == U16(UnionNum(<<bytes[2], bytes[1]>>, h))

nsqpp_bswap32(bytes, h) ==
    UnionNum(<<bytes[4], bytes[3], bytes[2], bytes[1]>>, h)

nsqpp_bswap64(bytes, h) ==
    UnionNum(<<bytes[8], bytes[7], bytes[6], bytes[5],
               bytes[4], bytes[3], bytes[2], bytes[1]>>, h)

----------------------------------------------------------------------------
(* The Lua API as the decoder uses it.  A Lua value is tagged with its    *)
(* type; a Lua state is the stack plus whether an error was raised.       *)

LuaInt(v) == [t |-> "int", v |-> v]

\* a lua_Integer too wide for a TLC integer, held as its 8-byte word
LuaInt64(w) == [t |-> "int64", v |-> w]

LuaStr(s) == [t |-> "str", v |-> s]

\* The byte at data + i.  A Lua string of length len is followed by a NUL
\* byte; what lies beyond that is not the string's memory, and reading it is
\* undefined: g, any bytes at all, stands for what such a read finds.
At(data, g, i) ==
    IF i < Len(data) THEN data[i + 1]
    ELSE IF i = Len(data) THEN 0
    ELSE g[i - Len(data)]

\* the n bytes at data + off
Mem(data, g, off, n) == [i \in 1..n |-> At(data, g, off + i - 1)]

lua_pushinteger(L, v) == [L EXCEPT !.stack = Append(@, LuaInt(v))]

\* lua_pushlstring( L, data + off, n ) with n an int32_t expression: the
\* parameter is a size_t, so a negative n arrives as a length of 2^64 + n,
\* more than any block Lua can allocate; no value is pushed and the call
\* does not return (Lua raises a memory error, or the copy faults).
lua_pushlstring(L, data, g, off, n) ==
    IF L.status # "ok" THEN L
    ELSE IF n < 0 THEN [L EXCEPT !.status = "error"]
    ELSE [L EXCEPT !.stack = Append(@, LuaStr(Mem(data, g, off, n)))]

\* lua_replace( L, idx ) for a negative idx: moves the top value into the
\* slot idx (counted from the top) and pops it.
lua_replace(L, idx) ==
    LET n == Len(L.stack)
        pos == n + 1 + idx
    IN  [L EXCEPT !.stack =
            [i \in 1..(n - 1) |-> IF i = pos THEN L.stack[n] ELSE L.stack[i]]]

\* `return n;` of a lua_CFunction: the top n values are the results.  An
\* error raised inside the function leaves no results.
Return(L, n) ==
    IF L.status # "ok" THEN [status |-> "error", ret |-> <<>>]
    ELSE [status |-> "ok",
          ret |-> SubSeq(L.stack, Len(L.stack) - n + 1, Len(L.stack))]

----------------------------------------------------------------------------
(* decodeframe_lua, util.c:114-172 *)

\* decode_short reporting the size of the whole size word as the need
decode_short_whole(L, len) ==
    Return(lua_pushinteger(lua_pushinteger(L, NSQPP_FRAME_PARTIAL), 4), 2)

\* util.c:122-127: fewer than 4 bytes
decode_short(L, len) ==
    Return(lua_pushinteger(lua_pushinteger(L, NSQPP_FRAME_PARTIAL), 4 - len), 2)

\* util.c:133: ( len - 4 ) < payload with len a size_t and payload an
\* int32_t: payload is converted to size_t, so a negative payload compares
\* as 2^64 + payload, greater than any len - 4.
payload_missing(len, payload) ==
    IF payload < 0 THEN TRUE ELSE (len - 4) < payload

\* util.c:134-136: payload - ( len - 4 ) is computed in size_t and pushed as
\* a lua_Integer: modulo 2^64 and read back as signed that is the
\* mathematical difference (negative when payload is).
decode_partial(L, len, payload) ==
    Return(lua_pushinteger(lua_pushinteger(L, NSQPP_FRAME_PARTIAL),
                           payload - (len - 4)), 2)

\* decode_response taking the body to run to the end of the buffer
decode_response_rest(L, data, g, payload) ==
    Return(lua_pushlstring(L, data, g, 8, Len(data) - 8), 3)

\* util.c:149-152: response and error frames
decode_response(L, data, g, payload) ==
    Return(lua_pushlstring(L, data, g, 8, payload - 4), 3)

\* util.c:155-164: message frames
decode_message(L, data, g, payload, h) ==
    LET L1 == lua_pushlstring(L, data, g, 34, payload - 30)
        L2 == lua_pushlstring(L1, data, g, 18, 16)
        L3 == [L2 EXCEPT !.stack =
                  Append(@, LuaInt64(nsqpp_bswap64(Mem(data, g, 8, 8), h)))]
        L4 == lua_pushinteger(L3, nsqpp_bswap16(Mem(data, g, 10, 2), h))
    IN  IF L1.status # "ok" THEN Return(L1, 6) ELSE Return(L4, 6)

\* decode_invalid replacing the slot of `consumed` instead of the type's
decode_invalid_slot(L) ==
    Return(lua_replace(lua_pushinteger(L, NSQPP_FRAME_INVAL), -2), 2)

\* util.c:167-170: any other type
decode_invalid(L) ==
    Return(lua_replace(lua_pushinteger(L, NSQPP_FRAME_INVAL), -3), 2)

decodeframe_lua(data, g, h) ==
    LET len == Len(data)
        L0 == [status |-> "ok", stack |-> <<LuaStr(data)>>]
    IN  IF len < 4 THEN decode_short(L0, len)
        ELSE
        LET payload == S32(nsqpp_bswap32(Mem(data, g, 0, 4), h))
        IN  IF payload_missing(len, payload)
            THEN decode_partial(L0, len, payload)
            ELSE
            LET type == S32(nsqpp_bswap32(Mem(data, g, 4, 4), h))
                L1 == lua_pushinteger(lua_pushinteger(L0, type), payload + 4)
            IN  CASE type \in {NSQPP_FRAME_RESPONSE, NSQPP_FRAME_ERROR} ->
                        decode_response(L1, data, g, payload)
                  [] type = NSQPP_FRAME_MESSAGE ->
                        decode_message(L1, data, g, payload, h)
                  [] OTHER -> decode_invalid(L1)

----------------------------------------------------------------------------
(* htonl_lua, util.c:175-183.  len is a lua_Integer, given as its 8-byte  *)
(* word.                                                                  *)

\* htonl leaving the bytes in host order
htonl_hostorder(len, h) == SubSeq(len, 5, 8)

\* htonl( len ): the argument is converted to uint32_t (the low 4 bytes of
\* the word); the result is the integer whose bytes in this host's memory
\* are the argument's bytes, most significant first.
htonl(len, h) == UnionNum(SubSeq(len, 5, 8), h)

htonl_lua(len, h) ==
    LET data == UnionPtr(htonl(len, h), h)
    IN  [status |-> "ok", ret |-> <<LuaStr(SubSeq(data, 1, 4))>>]

----------------------------------------------------------------------------
(* Inputs: wire streams.  A stream is one frame header (a size word and a  *)
(* type word) with as much payload as the size announces (none when the   *)
(* size is below 4), followed by a tail.  Size words that announce more   *)
(* than the stream holds, and negative ones, are followed by the type     *)
(* word and two payload bytes.                                            *)

Fills == {"zero", "ramp", "high"}

\* the i-th payload byte (i >= 1) of a generated frame
Fill(f, i) ==
    CASE f = "zero" -> 0
      [] f = "ramp" -> (17 * i + 3) % 256
      [] OTHER -> 255 - i

\* sizes a generated frame holds in full: below and at the minimum of each
\* frame type, and bodies of 0..MaxBody bytes
FrameSizes ==
    (0..3) \cup {4 + n : n \in 0..MaxBody} \cup {29}
           \cup {30 + n : n \in 0..MaxBody}

\* size words no generated stream satisfies: -1, -4, -2^31 + 256, 256,
\* 2^31 - 1
OddSizeWords ==
    { <<255, 255, 255, 255>>, <<255, 255, 255, 252>>, <<128, 0, 1, 0>>,
      <<0, 0, 1, 0>>, <<127, 255, 255, 255>> }

\* type words: 0, 1, 2, 3, 99, -1, -2, 2^24
TypeWords ==
    { <<0, 0, 0, t>> : t \in {0, 1, 2, 3, 99} } \cup
    { <<255, 255, 255, 255>>, <<255, 255, 255, 254>>, <<1, 0, 0, 0>> }

Payload(f, n) == [i \in 1..n |-> Fill(f, i)]

TailStream(t) ==
    CASE t = 0 -> <<>>
      [] t = 1 -> <<0, 0, 0, 6, 0, 0, 0, 0, 79, 75>>
      [] t = 2 -> <<0, 0, 0, 4, 0, 0, 0, 99>>
      [] OTHER -> <<0, 0, 0, 5, 0, 0, 0, 1, 33>>

Streams ==
    { <<0, 0, 0, n>> \o tw \o Payload(f, IF n > 4 THEN n - 4 ELSE 0)
                     \o TailStream(t) :
        n \in FrameSizes, tw \in TypeWords, f \in Fills, t \in 0..MaxTail }
    \cup
    { sw \o tw \o Payload(f, 2) \o TailStream(t) :
        sw \in OddSizeWords, tw \in TypeWords, f \in Fills, t \in 0..MaxTail }

\* What a read past the end of the string's memory may find.  The decoder
\* reads past the NUL only when it reads the type word of a string of 4..6
\* bytes; for every other string the choice is immaterial.
Garbage(data) ==
    IF Len(data) \in 4..6 THEN [1..3 -> {0, 2, 255}] ELSE {<<0, 0, 0>>}

\* arguments of htonl: lua_Integers as 8-byte words (0, 2^32, 2^63 - 2^32,
\* -2^63 and -2^32, each plus a low word)
Counts ==
    { hi \o lo :
        hi \in { <<0, 0, 0, 0>>, <<0, 0, 0, 1>>, <<127, 255, 255, 255>>,
                 <<128, 0, 0, 0>>, <<255, 255, 255, 255>> },
        lo \in [1..4 -> {0, 1, 127, 128, 255}] }

\* byte sequences the readers are applied to
Probes == [1..8 -> {0, 1, 255}]

----------------------------------------------------------------------------
(* The caller's loop (the transport layer of spec.md sections 2 and 6):   *)
(* append what was read, decode, drop the consumed bytes.                 *)

NoCall == [status |-> "none", ret |-> <<>>]

NoHist == [exact |-> FALSE, sized |-> FALSE]

NoEnc == [arg |-> <<>>, res |-> NoCall, back |-> <<>>]

NoRead == [bytes |-> <<>>, done |-> FALSE, r16 |-> 0, r32 |-> <<>>, r64 |-> <<>>]

IsPartial(o) ==
    o.status = "ok" /\ Len(o.ret) = 2 /\ o.ret[1].v = NSQPP_FRAME_PARTIAL

\* the outcome is a frame or FRAME_INVAL: its second value is `consumed`
IsNonPartial(o) == o.status = "ok" /\ ~IsPartial(o)

Init ==
    /\ host = "little"
    /\ rest \in Streams
    /\ buf = <<>>
    /\ pc = "decode"
    /\ out = NoCall
    /\ hist = NoHist
    /\ enc = NoEnc
    /\ rd = NoRead

\* decodeframe( buf )
Decode ==
    /\ pc = "decode"
    /\ \E g \in Garbage(buf) : out' = decodeframe_lua(buf, g, host)
    /\ pc' = IF out'.status # "ok" THEN "failed"
             ELSE IF IsPartial(out') THEN "recv" ELSE "consume"
    /\ UNCHANGED <<host, rest, buf, hist, enc, rd>>

\* on a partial outcome: read k more bytes from the transport
Recv(k) ==
    /\ pc = "recv"
    /\ k \in 1..Len(rest)
    /\ buf' = buf \o SubSeq(rest, 1, k)
    /\ rest' = SubSeq(rest, k + 1, Len(rest))
    /\ hist' = [exact |-> (k = out.ret[2].v), sized |-> (Len(buf) >= 4)]
    /\ pc' = "decode"
    /\ UNCHANGED <<host, out, enc, rd>>

\* on a frame or FRAME_INVAL: remove `consumed` bytes from the front
Consume ==
    /\ pc = "consume"
    /\ buf' = SubSeq(buf, out.ret[2].v + 1, Len(buf))
    /\ hist' = NoHist
    /\ pc' = "decode"
    /\ UNCHANGED <<host, rest, out, enc, rd>>

Next == Decode \/ (\E k \in 1..Len(rest) : Recv(k)) \/ Consume

Spec == Init /\ [][Next]_vars

----------------------------------------------------------------------------
(* The encoder: htonl( n ), and its result read back with nsqpp_bswap32 *)

InitEnc ==
    /\ host = "little"
    /\ rest = <<>>
    /\ buf = <<>>
    /\ pc = "decode"
    /\ out = NoCall
    /\ hist = NoHist
    /\ \E n \in Counts : enc = [NoEnc EXCEPT !.arg = n]
    /\ rd = NoRead

Htonl ==
    /\ enc.res = NoCall
    /\ enc' = [enc EXCEPT !.res = htonl_lua(enc.arg, host)]
    /\ UNCHANGED <<host, rest, buf, pc, out, hist, rd>>

ReadBack ==
    /\ enc.res.status = "ok"
    /\ enc.back = <<>>
    /\ enc' = [enc EXCEPT !.back = nsqpp_bswap32(enc.res.ret[1].v, host)]
    /\ UNCHANGED <<host, rest, buf, pc, out, hist, rd>>

NextEnc == Htonl \/ ReadBack

SpecEnc == InitEnc /\ [][NextEnc]_vars

----------------------------------------------------------------------------
(* The readers on either host *)

InitHosts ==
    /\ host \in Hosts
    /\ rest = <<>>
    /\ buf = <<>>
    /\ pc = "decode"
    /\ out = NoCall
    /\ hist = NoHist
    /\ enc = NoEnc
    /\ \E p \in Probes : rd = [NoRead EXCEPT !.bytes = p]

Read ==
    /\ ~rd.done
    /\ rd' = [bytes |-> rd.bytes,
              done |-> TRUE,
              r16 |-> nsqpp_bswap16(rd.bytes, host),
              r32 |-> nsqpp_bswap32(rd.bytes, host),
              r64 |-> nsqpp_bswap64(rd.bytes, host)]
    /\ UNCHANGED <<host, rest, buf, pc, out, hist, enc>>

NextHosts == Read

SpecHosts == InitHosts /\ [][NextHosts]_vars

----------------------------------------------------------------------------
(* Properties.  The wire's own reading of a buffer: the size and type     *)
(* words are big-endian, so their values are those of the bytes in order. *)

SizeOf(b) == S32(SubSeq(b, 1, 4))

TypeOf(b) == S32(SubSeq(b, 5, 8))

\* out is the result of decodeframe on the present buf
Decoded == pc # "decode"

\* the buffer holds the 8-byte header and all `size` bytes after the size word
CompleteFrame(b) == Len(b) >= 8 /\ SizeOf(b) >= 0 /\ Len(b) - 4 >= SizeOf(b)

\* C1: a complete frame of type 2 and size 30+n decodes to a Message with
\* consumed = 34+n, body = bytes [34,34+n), message id = bytes [18,34),
\* timestamp = the 64-bit big-endian value of bytes [8,16) and attempts =
\* the 16-bit big-endian value of bytes [16,18).
C1_MessageFields ==
    (Decoded /\ CompleteFrame(buf) /\ TypeOf(buf) = NSQPP_FRAME_MESSAGE
             /\ SizeOf(buf) >= 30)
    => /\ out.status = "ok"
       /\ Len(out.ret) = 6
       /\ out.ret[1] = LuaInt(NSQPP_FRAME_MESSAGE)
       /\ out.ret[2] = LuaInt(SizeOf(buf) + 4)
       /\ out.ret[3] = LuaStr(SubSeq(buf, 35, 4 + SizeOf(buf)))
       /\ out.ret[4] = LuaStr(SubSeq(buf, 19, 34))
       /\ out.ret[5] = LuaInt64(SubSeq(buf, 9, 16))
       /\ out.ret[6] = LuaInt(U16(SubSeq(buf, 17, 18)))

\* C2: a complete frame of type 0 or 1 and size >= 4 decodes to that type,
\* consumed = size+4 and body = bytes [8, 4+size), whatever follows the
\* frame in the buffer.
C2_ResponseBody ==
    (Decoded /\ CompleteFrame(buf) /\ SizeOf(buf) >= 4
             /\ TypeOf(buf) \in {NSQPP_FRAME_RESPONSE, NSQPP_FRAME_ERROR})
    => out = [status |-> "ok",
              ret |-> << LuaInt(TypeOf(buf)), LuaInt(SizeOf(buf) + 4),
                         LuaStr(SubSeq(buf, 9, 4 + SizeOf(buf))) >>]

\* an error frame with a body and with bytes after it was decoded
C2_Witness ==
    /\ Decoded /\ CompleteFrame(buf)
    /\ TypeOf(buf) = NSQPP_FRAME_ERROR
    /\ SizeOf(buf) > 4
    /\ Len(buf) > 4 + SizeOf(buf)
    /\ out.status = "ok" /\ Len(out.ret) = 3
    /\ Len(out.ret[3].v) = SizeOf(buf) - 4

\* C3: a buffer of 4+k bytes whose size word exceeds k decodes to Partial
\* with need = size-k, and the decode that follows the append of exactly
\* `need` bytes returns a non-partial outcome (a frame or Invalid).  The
\* second half is stated for buffers that hold the type word, which the
\* decoder then reads from the buffer itself.
C3_ExactNeed ==
    /\ (Decoded /\ Len(buf) >= 4 /\ SizeOf(buf) > Len(buf) - 4)
       => out = [status |-> "ok",
                 ret |-> << LuaInt(NSQPP_FRAME_PARTIAL),
                            LuaInt(SizeOf(buf) - (Len(buf) - 4)) >>]
    /\ (Decoded /\ hist.sized /\ hist.exact /\ Len(buf) >= 8)
       => IsNonPartial(out)

C5_MalformedIsInvalid ==
    (Decoded /\ Len(buf) >= 8 /\ Len(buf) - 4 >= SizeOf(buf)
             /\ \/ TypeOf(buf) \in {0, 1} /\ SizeOf(buf) < 4
                \/ TypeOf(buf) = 2 /\ SizeOf(buf) < 30)
    => /\ out.status = "ok"
       /\ out.ret[1] = LuaInt(NSQPP_FRAME_INVAL)

\* the count fits 32 bits: 0 <= n < 2^32
Fits32(n) == SubSeq(n, 1, 4) = <<0, 0, 0, 0>>

\* the count is in [0, 2^31)
Fits31(n) == Fits32(n) /\ n[5] < 128

\* C6: htonl reports an error for every count outside the 32-bit range
\* (negative, or 2^32 and more); it returns no bytes for one.
C6_RangeError ==
    (enc.res # NoCall /\ ~Fits32(enc.arg)) => enc.res.status = "error"

\* C7: for every count c in [0, 2^31), nsqpp_bswap32 of the 4 bytes htonl
\* returns for c is c.
C7_RoundTrip ==
    (enc.back # <<>> /\ Fits31(enc.arg))
    => /\ Len(enc.res.ret[1].v) = 4
       /\ S32(enc.back) = S32(SubSeq(enc.arg, 5, 8))

\* the count 2^24 + 127 * 256 + 255 went through htonl and back
C7_Witness ==
    /\ enc.arg = <<0, 0, 0, 0, 1, 0, 127, 255>>
    /\ enc.back = <<1, 0, 127, 255>>

\* C8: every decode is Partial or a non-partial outcome whose consumed is
\* size+4 with 0 < consumed <= buffer length, so the caller's loop only
\* ever stops at a Partial outcome.  Stated for the buffers whose decode
\* reads the buffer's own bytes only (fewer than 4 bytes, or 8 and more).
C8_Progress ==
    (Decoded /\ Len(buf) \notin 4..7)
    => \/ IsPartial(out)
       \/ /\ IsNonPartial(out)
          /\ out.ret[2] = LuaInt(SizeOf(buf) + 4)
          /\ 0 < out.ret[2].v
          /\ out.ret[2].v <= Len(buf)

\* C9: a buffer of fewer than 4 bytes decodes to Partial with
\* need = 4 - length, whatever its bytes.
C9_ShortBuffer ==
    (Decoded /\ Len(buf) < 4)
    => out = [status |-> "ok",
              ret |-> << LuaInt(NSQPP_FRAME_PARTIAL), LuaInt(4 - Len(buf)) >>]

\* a buffer of 3 bytes that are not all zero was decoded
C9_Witness ==
    /\ Decoded
    /\ Len(buf) = 3
    /\ buf # <<0, 0, 0>>
    /\ out.status = "ok"
    /\ out.ret[2] = LuaInt(1)

\* C10: on either host the 16-, 32- and 64-bit readers return the
\* big-endian value of the bytes (first byte most significant).
C10_HostIndependent ==
    rd.done
    => /\ rd.r16 = rd.bytes[1] * 256 + rd.bytes[2]
       /\ rd.r32 = SubSeq(rd.bytes, 1, 4)
       /\ rd.r64 = rd.bytes

====
